---- MODULE Spec2Model ----
(***************************************************************************)
(* Model of anime-renamer (src/unnamed/part_000): the preflight validator, *)
(* the two-phase transactional rename executor with its rollback, the      *)
(* part of main that drives them, the pairing engine and the season and    *)
(* episode extraction cascade.                                             *)
(*                                                                         *)
(* Paths are numbers.  0 is the empty (or all-blank) path, 1..NPaths are   *)
(* the names an instruction can mention, and the names buildTempPath makes *)
(* (".anime-renamer-tmp-<pid>-<index*1000+attempt>-<base>") are            *)
(* TempPrefix + index*1000 + attempt, a range no instruction mentions.     *)
(* The filesystem maps every path to the content of the file there, or to  *)
(* NoFile.  The content of a file is the path it had when the run began.   *)
(* os.Stat either finds the file or reports that it does not exist.        *)
(***************************************************************************)
EXTENDS Integers, Sequences, FiniteSets, TLC

\* Bounds of the model.
MaxOps == 2
NPaths == 3

NoFile == 0
EmptyPath == 0
TempPrefix == 1000
TempAttempts == 1000

VARIABLES
    entry,          \* which function the run enters: "main", "exec" or "preflight"
    pc,             \* position of the run
    operations,     \* []RenameOperation handed to preflight and to the executor
    dryRun,         \* config.DryRun / the dryRun argument
    fs,             \* the filesystem
    fs0,            \* the filesystem when the run began
    issues,         \* PreflightError.Issues of the last preflight call
    confirmed,      \* confirmRename() answered yes
    states,         \* []renameState of the executor
    index,          \* loop index of the executor or of rollback (1-based)
    executionErr,   \* the RenameExecutionError being handled, or NoError
    rollbackErrors, \* rollbackErrors of rollbackRenameStates
    ret,            \* what executeRenameOperationsWith returned, or NotReturned
    calls,          \* every call of renameFn so far: from, to, outcome, caller
    videoFiles,     \* createFilePairs: the media files, in discovery order
    subtitleFiles,  \* createFilePairs: the companion files, in discovery order
    pairs,          \* createFilePairs: the pairs returned
    unmatched,      \* createFilePairs: the unmatched files returned
    matches,        \* extractSeasonAndEpisode: what each pattern finds in the name
    season,         \* extractSeasonAndEpisode: the season returned
    episode         \* extractSeasonAndEpisode: the episode returned

execVars == <<operations, dryRun, fs, fs0, issues, confirmed, states,
              index, executionErr, rollbackErrors, ret, calls>>

pairVars == <<videoFiles, subtitleFiles, pairs, unmatched>>

extractVars == <<matches, season, episode>>

vars == <<entry, pc, execVars, pairVars, extractVars>>

UserPaths == 1..NPaths

\* unnamed/part_000:614  index*1000+attempt makes the names of different
\* instructions differ
TempPathOf(idx, attempt) == TempPrefix + idx * 1000 + attempt

\* A temporary name left behind by an earlier run may still exist.
StaleTempPaths == {TempPathOf(0, 0)}

TempCandidates == {TempPathOf(i, a) : i \in 0..(MaxOps - 1), a \in 0..1}

AllPaths == UserPaths \cup TempCandidates

\* os.Stat(path) == nil
Exists(f, path) == path \in DOMAIN f /\ f[path] # NoFile

\* All orders in which a Go map holding the keys S can be iterated.
Orders(S) ==
    {o \in [1..Cardinality(S) -> S] : \A i, j \in 1..Cardinality(S) : o[i] = o[j] => i = j}

(***************************************************************************)
(* preflightRenameOperations                                               *)
(***************************************************************************)
Issue(kind, path) == [kind |-> kind, path |-> path]

\* mutant: a missing source is reported, but the instruction then goes on to
\* the target checks instead of being left (the continue of line 473 is lost)
PreflightVisit_NoContinue(f, acc, operation) ==
    IF operation.OldPath = EmptyPath
    THEN [acc EXCEPT !.issues = Append(@, Issue("empty source path", EmptyPath))]
    ELSE IF operation.NewPath = EmptyPath
    THEN [acc EXCEPT !.issues = Append(@, Issue("empty target path", operation.OldPath))]
    ELSE LET withSource == [acc EXCEPT !.sourcePaths = @ \cup {operation.OldPath}]
             stated == IF ~Exists(f, operation.OldPath)
                       THEN [withSource EXCEPT !.issues =
                               Append(@, Issue("source file does not exist", operation.OldPath))]
                       ELSE withSource
         IN IF operation.OldPath = operation.NewPath
            THEN stated
            ELSE IF operation.NewPath \in acc.targetPaths
            THEN [stated EXCEPT !.issues =
                    Append(@, Issue("duplicate target path detected", operation.NewPath))]
            ELSE [stated EXCEPT !.targetPaths = @ \cup {operation.NewPath}]

\* mutant: the duplicate-target check of lines 480-483 is missing
PreflightVisit_NoDuplicateCheck(f, acc, operation) ==
    IF operation.OldPath = EmptyPath
    THEN [acc EXCEPT !.issues = Append(@, Issue("empty source path", EmptyPath))]
    ELSE IF operation.NewPath = EmptyPath
    THEN [acc EXCEPT !.issues = Append(@, Issue("empty target path", operation.OldPath))]
    ELSE LET withSource == [acc EXCEPT !.sourcePaths = @ \cup {operation.OldPath}]
         IN IF ~Exists(f, operation.OldPath)
            THEN [withSource EXCEPT !.issues =
                    Append(@, Issue("source file does not exist", operation.OldPath))]
            ELSE IF operation.OldPath = operation.NewPath
            THEN withSource
            ELSE [withSource EXCEPT !.targetPaths = @ \cup {operation.NewPath}]

\* One iteration of the first loop, lines 458-486.  acc holds issues,
\* sourcePaths and targetPaths; every issue ends the iteration (continue).
PreflightVisit(f, acc, operation) ==
    IF operation.OldPath = EmptyPath
    THEN [acc EXCEPT !.issues = Append(@, Issue("empty source path", EmptyPath))]
    ELSE IF operation.NewPath = EmptyPath
    THEN [acc EXCEPT !.issues = Append(@, Issue("empty target path", operation.OldPath))]
    ELSE LET withSource == [acc EXCEPT !.sourcePaths = @ \cup {operation.OldPath}]
         IN IF ~Exists(f, operation.OldPath)
            THEN [withSource EXCEPT !.issues =
                    Append(@, Issue("source file does not exist", operation.OldPath))]
            ELSE IF operation.OldPath = operation.NewPath
            THEN withSource
            ELSE IF operation.NewPath \in acc.targetPaths
            THEN [withSource EXCEPT !.issues =
                    Append(@, Issue("duplicate target path detected", operation.NewPath))]
            ELSE [withSource EXCEPT !.targetPaths = @ \cup {operation.NewPath}]

RECURSIVE PreflightLoop(_, _, _, _)
PreflightLoop(f, ops, i, acc) ==
    IF i > Len(ops) THEN acc
    ELSE PreflightLoop(f, ops, i + 1, PreflightVisit(f, acc, ops[i]))

\* lines 449-486: the issues of the first loop and the two path sets
PreflightScan(f, ops) ==
    PreflightLoop(f, ops, 1,
        [issues |-> IF Len(ops) = 0
                    THEN <<Issue("no matched file pairs were found", EmptyPath)>>
                    ELSE <<>>,
         sourcePaths |-> {},
         targetPaths |-> {}])

\* lines 488-502: the targets that exist and are no source of the batch
ExistingTargets(f, scan) ==
    {t \in scan.targetPaths : t \notin scan.sourcePaths /\ Exists(f, t)}

\* The issue lists preflightRenameOperations can return: the second loop
\* ranges over a map, so its issues come in any order.
PreflightIssues(f, ops) ==
    LET scan == PreflightScan(f, ops)
        late == ExistingTargets(f, scan)
    IN {scan.issues \o [i \in 1..Cardinality(late) |-> Issue("target path already exists", o[i])]
          : o \in Orders(late)}

\* lines 504-508: nil is returned
PreflightPasses(f, ops) == PreflightIssues(f, ops) = {<<>>}

(***************************************************************************)
(* executeRenameOperationsWith, buildTempPath, rollbackRenameStates        *)
(***************************************************************************)
NoError == [Phase |-> "none", From |-> EmptyPath, To |-> EmptyPath]

RenameExecutionError(phase, from, to) == [Phase |-> phase, From |-> from, To |-> to]

\* Values of ret.  kind is "pending" until the executor returns, then "nil",
\* "allocation" (buildTempPath failed) or "failure"; a failure carries the
\* RenameExecutionError and, joined to it, the errors of rollback if any.
NotReturned == [kind |-> "pending", exec |-> NoError, rollback |-> <<>>]
ReturnedNil == [kind |-> "nil", exec |-> NoError, rollback |-> <<>>]
AllocationError == [kind |-> "allocation", exec |-> NoError, rollback |-> <<>>]
ExecutionFailure(err, rollbackErrs) == [kind |-> "failure", exec |-> err, rollback |-> rollbackErrs]

\* lines 611-627: the first candidate name that does not exist, or EmptyPath
\* when all TempAttempts candidates exist
RECURSIVE TempSearch(_, _, _)
TempSearch(f, idx, attempt) ==
    IF attempt >= TempAttempts THEN EmptyPath
    ELSE IF ~Exists(f, TempPathOf(idx, attempt)) THEN TempPathOf(idx, attempt)
    ELSE TempSearch(f, idx, attempt + 1)

buildTempPath(f, idx) == TempSearch(f, idx, 0)

\* mutant: nothing is a no-op, every instruction is tracked and renamed
IsNoOp_Never(operation) == FALSE

\* lines 522 and 536
IsNoOp(operation) == operation.OldPath = operation.NewPath

\* lines 535-551: the tracked states, in instruction order, the no-ops left
\* out; i is the 1-based position, the code's index is i - 1
RECURSIVE BuildStates(_, _, _)
BuildStates(f, ops, i) ==
    IF i > Len(ops) THEN <<>>
    ELSE IF IsNoOp(ops[i]) THEN BuildStates(f, ops, i + 1)
    ELSE <<[OldPath |-> ops[i].OldPath,
            NewPath |-> ops[i].NewPath,
            TempPath |-> buildTempPath(f, i - 1),
            CurrentPath |-> ops[i].OldPath]>> \o BuildStates(f, ops, i + 1)

\* lines 541-544
AllocationFailed(sts) == \E i \in 1..Len(sts) : sts[i].TempPath = EmptyPath

\* renameFn.  The injected function may fail for a reason of its own and
\* then changes nothing; otherwise it is os.Rename, which fails when there
\* is no file at oldPath and replaces whatever is at newPath.
RenameSucceeds(f, oldPath, newPath, injectedFailure) ==
    ~injectedFailure /\ Exists(f, oldPath)

Renamed(f, oldPath, newPath) ==
    IF oldPath = newPath THEN f
    ELSE [f EXCEPT ![newPath] = f[oldPath], ![oldPath] = NoFile]

Call(from, to, ok, by) == [from |-> from, to |-> to, ok |-> ok, by |-> by]

\* mutant: the dry-run flag is not looked at
IsDryRun_Ignored(dry) == FALSE

\* line 520
IsDryRun(dry) == dry

\* mutant: CurrentPath is not moved on after the phase-one rename
AfterPhaseOne_Forgotten(state) == state

\* line 576
AfterPhaseOne(state) == [state EXCEPT !.CurrentPath = state.TempPath]

\* mutant: CurrentPath is not moved on after the phase-two rename
AfterPhaseTwo_Forgotten(state) == state

\* line 597
AfterPhaseTwo(state) == [state EXCEPT !.CurrentPath = state.NewPath]

\* mutant: rollback compares the current path with the target, not the source
RollbackSkips_ComparesTarget(state) == state.CurrentPath = state.NewPath

\* line 635
RollbackSkips(state) == state.CurrentPath = state.OldPath

\* mutant: one loop, each file is renamed to its target right after it got
\* its temporary name
PhaseOneDone_AfterEach(idx, sts) == TRUE

\* line 558: the phase-one loop ends after the last state, and only then
\* does the phase-two loop of line 579 begin
PhaseOneDone(idx, sts) == idx = Len(sts)

\* The executor hands its result back: main exits with status 1 on an error
\* (lines 163-165, 180-182), a direct caller just has the result.
Return(r) ==
    /\ ret' = r
    /\ pc' = IF entry = "main" /\ r.kind # "nil" THEN "exit" ELSE "done"

\* lines 520-531
ExecDryRun ==
    /\ pc = "exec"
    /\ IsDryRun(dryRun)
    /\ Return(ReturnedNil)
    /\ UNCHANGED <<entry, operations, dryRun, fs, fs0, issues, confirmed, states,
                   index, executionErr, rollbackErrors, calls>>
    /\ UNCHANGED <<pairVars, extractVars>>

\* lines 533-556
ExecBuildStates ==
    /\ pc = "exec"
    /\ ~IsDryRun(dryRun)
    /\ LET sts == BuildStates(fs, operations, 1)
       IN IF AllocationFailed(sts)
          THEN Return(AllocationError) /\ UNCHANGED <<states, index>>
          ELSE IF Len(sts) = 0
          THEN Return(ReturnedNil) /\ states' = sts /\ UNCHANGED index
          ELSE states' = sts /\ index' = 1 /\ pc' = "phase-one" /\ UNCHANGED ret
    /\ UNCHANGED <<entry, operations, dryRun, fs, fs0, issues, confirmed,
                   executionErr, rollbackErrors, calls>>
    /\ UNCHANGED <<pairVars, extractVars>>

\* lines 558-577: one iteration of the phase-one loop
PhaseOneRename ==
    /\ pc = "phase-one"
    /\ \E injectedFailure \in BOOLEAN :
         LET state == states[index]
             ok == RenameSucceeds(fs, state.CurrentPath, state.TempPath, injectedFailure)
         IN /\ calls' = Append(calls, Call(state.CurrentPath, state.TempPath, ok, "phase-one"))
            /\ IF ok
               THEN /\ fs' = Renamed(fs, state.CurrentPath, state.TempPath)
                    /\ states' = [states EXCEPT ![index] = AfterPhaseOne(state)]
                    /\ IF PhaseOneDone(index, states)
                       THEN pc' = "phase-two" /\ index' = 1
                       ELSE pc' = pc /\ index' = index + 1
                    /\ UNCHANGED <<executionErr, rollbackErrors>>
               ELSE /\ executionErr' =
                          RenameExecutionError("phase-one", state.CurrentPath, state.TempPath)
                    /\ rollbackErrors' = <<>>
                    /\ pc' = "rollback"
                    /\ index' = Len(states)
                    /\ UNCHANGED <<fs, states>>
    /\ UNCHANGED <<entry, operations, dryRun, fs0, issues, confirmed, ret>>
    /\ UNCHANGED <<pairVars, extractVars>>

\* lines 579-604: one iteration of the phase-two loop
PhaseTwoRename ==
    /\ pc = "phase-two"
    /\ \E injectedFailure \in BOOLEAN :
         LET state == states[index]
             ok == RenameSucceeds(fs, state.CurrentPath, state.NewPath, injectedFailure)
         IN /\ calls' = Append(calls, Call(state.CurrentPath, state.NewPath, ok, "phase-two"))
            /\ IF ok
               THEN /\ fs' = Renamed(fs, state.CurrentPath, state.NewPath)
                    /\ states' = [states EXCEPT ![index] = AfterPhaseTwo(state)]
                    /\ IF index = Len(states)
                       THEN Return(ReturnedNil) /\ UNCHANGED index
                       ELSE pc' = pc /\ index' = index + 1 /\ UNCHANGED ret
                    /\ UNCHANGED <<executionErr, rollbackErrors>>
               ELSE /\ executionErr' =
                          RenameExecutionError("phase-two", state.CurrentPath, state.NewPath)
                    /\ rollbackErrors' = <<>>
                    /\ pc' = "rollback"
                    /\ index' = Len(states)
                    /\ UNCHANGED <<fs, states, ret>>
    /\ UNCHANGED <<entry, operations, dryRun, fs0, issues, confirmed>>
    /\ UNCHANGED <<pairVars, extractVars>>

\* lines 633-662: one iteration of rollback's loop, from the last state to
\* the first; it reads a copy of the state and writes nothing back.  After
\* the iteration of the first state rollback returns (664-668) and so does
\* the executor (568-573, 589-594).
RollbackVisit ==
    /\ pc = "rollback"
    /\ \E injectedFailure \in BOOLEAN :
         LET state == states[index]
             attempted == ~RollbackSkips(state) /\ Exists(fs, state.CurrentPath)
             ok == attempted
                   /\ RenameSucceeds(fs, state.CurrentPath, state.OldPath, injectedFailure)
             errs == IF RollbackSkips(state) THEN rollbackErrors
                     ELSE IF ~Exists(fs, state.CurrentPath)
                     THEN Append(rollbackErrors,
                                 Issue("rollback source disappeared", state.CurrentPath))
                     ELSE IF ~ok
                     THEN Append(rollbackErrors, Issue("rollback failed", state.CurrentPath))
                     ELSE rollbackErrors
         IN /\ calls' = IF attempted
                        THEN Append(calls, Call(state.CurrentPath, state.OldPath, ok, "rollback"))
                        ELSE calls
            /\ fs' = IF ok THEN Renamed(fs, state.CurrentPath, state.OldPath) ELSE fs
            /\ rollbackErrors' = errs
            /\ IF index = 1
               THEN Return(ExecutionFailure(executionErr, errs)) /\ UNCHANGED index
               ELSE pc' = pc /\ index' = index - 1 /\ UNCHANGED ret
    /\ UNCHANGED <<entry, operations, dryRun, fs0, issues, confirmed, states, executionErr>>
    /\ UNCHANGED <<pairVars, extractVars>>

(***************************************************************************)
(* main, from the call of preflightRenameOperations on                     *)
(***************************************************************************)
\* mutant: main goes on whatever preflight reports
MainAborts_Never(iss) == FALSE

\* lines 157-159
MainAborts(iss) == iss # <<>>

\* lines 157-161
MainPreflight ==
    /\ pc = "main"
    /\ \E iss \in PreflightIssues(fs, operations) :
         /\ issues' = iss
         /\ pc' = IF MainAborts(iss) THEN "exit"
                  ELSE IF dryRun THEN "exec" ELSE "confirm"
    /\ UNCHANGED <<entry, operations, dryRun, fs, fs0, confirmed, states, index,
                   executionErr, rollbackErrors, ret, calls>>
    /\ UNCHANGED <<pairVars, extractVars>>

\* lines 170-178: confirmRename returns yes, no, or an error reading stdin
MainConfirm ==
    /\ pc = "confirm"
    /\ \E answer \in {"yes", "no", "error"} :
         /\ confirmed' = (answer = "yes")
         /\ pc' = CASE answer = "yes" -> "exec"
                    [] answer = "no" -> "done"
                    [] OTHER -> "exit"
    /\ UNCHANGED <<entry, operations, dryRun, fs, fs0, issues, states, index,
                   executionErr, rollbackErrors, ret, calls>>
    /\ UNCHANGED <<pairVars, extractVars>>

\* A direct call of preflightRenameOperations, as the tests make it.
PreflightCall ==
    /\ pc = "preflight"
    /\ issues' \in PreflightIssues(fs, operations)
    /\ pc' = "done"
    /\ UNCHANGED <<entry, operations, dryRun, fs, fs0, confirmed, states, index,
                   executionErr, rollbackErrors, ret, calls>>
    /\ UNCHANGED <<pairVars, extractVars>>

(***************************************************************************)
(* The runs                                                                *)
(***************************************************************************)
\* The variables of the pairing engine and of the extractor while they are
\* not the functions being run, and those of the executor likewise.
PairingIdle == videoFiles = <<>> /\ subtitleFiles = <<>> /\ pairs = <<>> /\ unmatched = <<>>

ExtractionIdle == matches = <<>> /\ season = 0 /\ episode = 0

ExecutorIdle ==
    /\ operations = <<>>
    /\ dryRun = FALSE
    /\ fs0 = [p \in AllPaths |-> NoFile]
    /\ fs = fs0
    /\ issues = <<>>
    /\ confirmed = FALSE
    /\ states = <<>>
    /\ index = 0
    /\ executionErr = NoError
    /\ rollbackErrors = <<>>
    /\ ret = NotReturned
    /\ calls = <<>>

OperationLists(paths) ==
    UNION {[1..n -> [OldPath : paths, NewPath : paths]] : n \in 0..MaxOps}

PathAt(ops, k) ==
    IF k % 2 = 1 THEN ops[(k + 1) \div 2].OldPath ELSE ops[k \div 2].NewPath

\* The names 1..NPaths are interchangeable, so a list is taken with its
\* names numbered in the order in which it first mentions them.
FirstUseOrder(ops) ==
    \A k \in 1..(2 * Len(ops)) :
        \A q \in 1..(PathAt(ops, k) - 1) : \E j \in 1..(k - 1) : PathAt(ops, j) = q

Init ==
    /\ entry \in {"main", "exec", "preflight"}
    /\ operations \in OperationLists(IF entry = "preflight"
                                     THEN UserPaths \cup {EmptyPath} ELSE UserPaths)
    /\ FirstUseOrder(operations)
    /\ dryRun \in (IF entry = "preflight" THEN {FALSE} ELSE BOOLEAN)
    /\ \E present \in SUBSET UserPaths, stale \in SUBSET StaleTempPaths :
         fs0 = [p \in AllPaths |-> IF p \in present \cup stale THEN p ELSE NoFile]
    /\ fs = fs0
    /\ pc = entry
    /\ issues = <<>>
    /\ confirmed = FALSE
    /\ states = <<>>
    /\ index = 0
    /\ executionErr = NoError
    /\ rollbackErrors = <<>>
    /\ ret = NotReturned
    /\ calls = <<>>
    /\ PairingIdle
    /\ ExtractionIdle

Next ==
    \/ MainPreflight
    \/ MainConfirm
    \/ PreflightCall
    \/ ExecDryRun
    \/ ExecBuildStates
    \/ PhaseOneRename
    \/ PhaseTwoRename
    \/ RollbackVisit

Spec == Init /\ [][Next]_vars

(***************************************************************************)
(* createFilePairs                                                         *)
(***************************************************************************)
MaxFiles == 2
KeyFactor == 1000

FileInfo(path, s, e, ext) == [Path |-> path, Season |-> s, Episode |-> e, Extension |-> ext]

\* lines 350 and 355
Key(file) == file.Season * KeyFactor + file.Episode

\* subtitleMap[key] = file
MapPut(m, key, file) == [k \in DOMAIN m \cup {key} |-> IF k = key THEN file ELSE m[k]]

\* delete(subtitleMap, key)
MapDelete(m, key) == [k \in DOMAIN m \ {key} |-> m[k]]

EmptyMap == [k \in {} |-> 0]

\* mutant: the first subtitle with a key is kept, later ones are dropped
RECURSIVE BuildSubtitleMap_FirstWins(_, _, _)
BuildSubtitleMap_FirstWins(subtitles, i, m) ==
    IF i > Len(subtitles) THEN m
    ELSE BuildSubtitleMap_FirstWins(subtitles, i + 1,
            IF Key(subtitles[i]) \in DOMAIN m THEN m
            ELSE MapPut(m, Key(subtitles[i]), subtitles[i]))

\* lines 349-352: a later subtitle with the same key replaces an earlier one
RECURSIVE BuildSubtitleMap(_, _, _)
BuildSubtitleMap(subtitles, i, m) ==
    IF i > Len(subtitles) THEN m
    ELSE BuildSubtitleMap(subtitles, i + 1, MapPut(m, Key(subtitles[i]), subtitles[i]))

\* mutant: the subtitle that was paired stays in the map
MatchVideo_NoDelete(acc, video) ==
    IF Key(video) \in DOMAIN acc.subtitleMap
    THEN [acc EXCEPT
            !.pairs = Append(@, [Video |-> video, Subtitle |-> acc.subtitleMap[Key(video)]])]
    ELSE [acc EXCEPT !.unmatched = Append(@, video)]

\* lines 354-363: one iteration of the loop over the videos
MatchVideo(acc, video) ==
    IF Key(video) \in DOMAIN acc.subtitleMap
    THEN [acc EXCEPT
            !.pairs = Append(@, [Video |-> video, Subtitle |-> acc.subtitleMap[Key(video)]]),
            !.subtitleMap = MapDelete(@, Key(video))]
    ELSE [acc EXCEPT !.unmatched = Append(@, video)]

RECURSIVE MatchVideos(_, _, _)
MatchVideos(videos, i, acc) ==
    IF i > Len(videos) THEN acc
    ELSE MatchVideos(videos, i + 1, MatchVideo(acc, videos[i]))

\* lines 345-363: pairs, unmatched videos, and the subtitles left in the map
PairingScan(videos, subtitles) ==
    MatchVideos(videos, 1,
        [pairs |-> <<>>,
         unmatched |-> <<>>,
         subtitleMap |-> BuildSubtitleMap(subtitles, 1, EmptyMap)])

\* lines 344-370.  The last loop ranges over the map, in any order.
CreateFilePairs ==
    /\ pc = "createFilePairs"
    /\ LET scan == PairingScan(videoFiles, subtitleFiles)
       IN /\ pairs' = scan.pairs
          /\ \E o \in Orders(DOMAIN scan.subtitleMap) :
                unmatched' = scan.unmatched
                             \o [i \in 1..Len(o) |-> scan.subtitleMap[o[i]]]
    /\ pc' = "done"
    /\ UNCHANGED <<entry, videoFiles, subtitleFiles, execVars, extractVars>>

\* The identities the files carry.  Episode 1001 of season 1 has the key of
\* episode 1 of season 2.
Identities == {<<1, 1>>, <<1, 2>>, <<2, 1>>, <<1, 1001>>}

\* Discovered files have different paths: the i-th video is at path i, the
\* j-th subtitle at path MaxFiles + j.
FileLists(ext, firstPath) ==
    UNION {{[i \in 1..n |-> FileInfo(firstPath + i, id[i][1], id[i][2], ext)]
               : id \in [1..n -> Identities]} : n \in 0..MaxFiles}

InitPairs ==
    /\ entry = "createFilePairs"
    /\ pc = entry
    /\ videoFiles \in FileLists(".mkv", 0)
    /\ subtitleFiles \in FileLists(".srt", MaxFiles)
    /\ pairs = <<>>
    /\ unmatched = <<>>
    /\ ExecutorIdle
    /\ ExtractionIdle

NextPairs == CreateFilePairs

SpecPairs == InitPairs /\ [][NextPairs]_vars

(***************************************************************************)
(* extractSeasonAndEpisode                                                 *)
(***************************************************************************)
\* The largest int of a 32-bit build; strconv.Atoi fails with a range error
\* above it.
MaxInt == 2147483647

\* lines 110-116: seasonIndex and episodeIndex of the five patterns
episodePatterns ==
    << [seasonIndex |-> 1, episodeIndex |-> 2],
       [seasonIndex |-> 1, episodeIndex |-> 2],
       [seasonIndex |-> 0, episodeIndex |-> 1],
       [seasonIndex |-> 0, episodeIndex |-> 1],
       [seasonIndex |-> 0, episodeIndex |-> 1] >>

\* strconv.Atoi on a string of decimal digits (all that \d captures): the
\* number, or an error when it does not fit an int.
RECURSIVE AtoiFrom(_, _, _)
AtoiFrom(digits, i, acc) ==
    IF i > Len(digits) THEN [err |-> FALSE, value |-> acc]
    ELSE IF acc > (MaxInt - digits[i]) \div 10 THEN [err |-> TRUE, value |-> MaxInt]
    ELSE AtoiFrom(digits, i + 1, acc * 10 + digits[i])

Atoi(digits) == AtoiFrom(digits, 1, 0)

\* mutant: the first pattern that matches decides, whatever its episode is
EpisodeRejected_Never(parsed) == FALSE

\* line 326
EpisodeRejected(parsed) == parsed.err \/ parsed.value = 0

\* lines 330-336
SeasonOf(pattern, match) ==
    IF pattern.seasonIndex > 0
    THEN LET parsed == Atoi(match[pattern.seasonIndex])
         IN IF ~parsed.err /\ parsed.value > 0 THEN parsed.value ELSE 1
    ELSE 1

\* lines 319-341.  found[i] is the list of groups the i-th pattern captures
\* in the name, empty when the pattern does not match (Go's match holds the
\* whole match at index 0 and so is one longer).
RECURSIVE Cascade(_, _)
Cascade(found, i) ==
    IF i > Len(episodePatterns) THEN <<1, 0>>
    ELSE LET pattern == episodePatterns[i]
             match == found[i]
         IN IF Len(match) + 1 <= pattern.episodeIndex
            THEN Cascade(found, i + 1)
            ELSE LET parsed == Atoi(match[pattern.episodeIndex])
                 IN IF EpisodeRejected(parsed)
                    THEN Cascade(found, i + 1)
                    ELSE <<SeasonOf(pattern, match), parsed.value>>

extractSeasonAndEpisode(found) == Cascade(found, 1)

ExtractSeasonAndEpisode ==
    /\ pc = "extractSeasonAndEpisode"
    /\ season' = extractSeasonAndEpisode(matches)[1]
    /\ episode' = extractSeasonAndEpisode(matches)[2]
    /\ pc' = "done"
    /\ UNCHANGED <<entry, matches, execVars, pairVars>>

\* What \d+ can capture as an episode: "0", "00", "2", "12", and ten nines,
\* which is too large for an int; and as a season.
TooLarge == <<9, 9, 9, 9, 9, 9, 9, 9, 9, 9>>

EpisodeCaptures == {<<0>>, <<0, 0>>, <<2>>, <<1, 2>>, TooLarge}

SeasonCaptures == {<<0>>, <<2>>, TooLarge}

\* What \d{2,3} can capture.
ShortCaptures == {<<0, 0>>, <<1, 2>>, <<0, 2, 1>>}

\* What the i-th pattern can find in a name: nothing, or its groups.
Found(i) ==
    {<<>>} \cup
    (IF episodePatterns[i].seasonIndex > 0
     THEN {<<s, e>> : s \in SeasonCaptures, e \in EpisodeCaptures}
     ELSE IF i < Len(episodePatterns) THEN {<<e>> : e \in EpisodeCaptures}
     ELSE {<<e>> : e \in ShortCaptures})

InitExtract ==
    /\ entry = "extractSeasonAndEpisode"
    /\ pc = entry
    /\ \E m1 \in Found(1), m2 \in Found(2), m3 \in Found(3), m4 \in Found(4), m5 \in Found(5) :
          matches = <<m1, m2, m3, m4, m5>>
    /\ season = 0
    /\ episode = 0
    /\ ExecutorIdle
    /\ PairingIdle

NextExtract == ExtractSeasonAndEpisode

SpecExtract == InitExtract /\ [][NextExtract]_vars

(***************************************************************************)
(* Properties of the executor, of preflight and of main                    *)
(***************************************************************************)
CallsBy(who) == SelectSeq(calls, LAMBDA c : c.by = who)

FailedCalls == {i \in 1..Len(calls) : ~calls[i].ok}

Sources == {operations[i].OldPath : i \in 1..Len(operations)}

LiveRunReturned == ~dryRun /\ ret.kind # "pending"

\* Every content of the filesystem at the start is still somewhere.
ContentsKept == \A p \in AllPaths : fs0[p] # NoFile => \E q \in AllPaths : fs[q] = fs0[p]

\* Two instructions that rename, the target of one being the source of the
\* other: a swap or a chain.
OverlappingBatch ==
    \E i, j \in 1..Len(operations) :
        /\ i # j
        /\ ~IsNoOp(operations[i]) /\ ~IsNoOp(operations[j])
        /\ operations[i].NewPath = operations[j].OldPath

\* C1: after a validated live batch in which exactly one phase-two rename
\* failed and every other rename call (rollback's included) succeeded, every
\* file of the batch is at its original path with its original content, and
\* nothing is at a temporary path or at a target that was no original path.
C1_PhaseTwoFailureRestoresBatch ==
    ( /\ ret.kind = "failure"
      /\ ret.exec.Phase = "phase-two"
      /\ PreflightPasses(fs0, operations)
      /\ Cardinality(FailedCalls) = 1 )
    => /\ \A i \in 1..Len(operations) :
            /\ fs[operations[i].OldPath] = fs0[operations[i].OldPath]
            /\ operations[i].NewPath \notin Sources => fs[operations[i].NewPath] = NoFile
       /\ \A i \in 1..Len(states) : fs[states[i].TempPath] = NoFile

\* C2: in every state of a live run on a validated batch, whatever rename
\* calls fail, every file content that existed at the start still exists at
\* some path: no rename of the executor or of rollback replaces a file.
C2_NoContentLost ==
    (~dryRun /\ PreflightPasses(fs0, operations)) => ContentsKept

\* C3: a validated live batch in which no rename call fails returns nil, the
\* content that was at each renaming instruction's source is at its target
\* (also when targets are other instructions' sources), and nothing is left
\* at a temporary path.
C3_SuccessfulBatchRenamesAll ==
    ( /\ LiveRunReturned
      /\ PreflightPasses(fs0, operations)
      /\ FailedCalls = {} )
    => /\ ret = ReturnedNil
       /\ \A i \in 1..Len(operations) :
            operations[i].OldPath # operations[i].NewPath
               => fs[operations[i].NewPath] = fs0[operations[i].OldPath]
       /\ \A i \in 1..Len(states) : fs[states[i].TempPath] = NoFile

C3_Witness ==
    /\ LiveRunReturned
    /\ PreflightPasses(fs0, operations)
    /\ FailedCalls = {}
    /\ OverlappingBatch
    /\ Len(calls) = 2 * Len(states)
    /\ \A i \in 1..Len(operations) : operations[i].NewPath \in Sources

\* C4: with dryRun the rename function is never called, the filesystem stays
\* as it was and the executor returns nil.
C4_DryRunChangesNothing ==
    dryRun => /\ calls = <<>>
              /\ fs = fs0
              /\ states = <<>>
              /\ ret.kind # "pending" => ret = ReturnedNil
              /\ (pc \in {"done", "exit"} /\ entry = "exec") => ret = ReturnedNil

C4_Witness ==
    /\ dryRun
    /\ ret = ReturnedNil
    /\ \E i \in 1..Len(operations) :
          /\ operations[i].OldPath # operations[i].NewPath
          /\ Exists(fs0, operations[i].OldPath)

AllNoOps ==
    /\ Len(operations) > 0
    /\ \A i \in 1..Len(operations) :
          /\ operations[i].OldPath = operations[i].NewPath
          /\ Exists(fs0, operations[i].OldPath)

\* C5: for a non-empty list whose instructions all have source = target and
\* an existing source, preflight passes and a live execution calls rename
\* zero times, allocates no temporary path, leaves the filesystem as it
\* was and returns nil.
C5_NoOpBatchIdempotent ==
    (AllNoOps /\ entry # "preflight")
    => /\ PreflightPasses(fs0, operations)
       /\ issues = <<>>
       /\ calls = <<>>
       /\ states = <<>>
       /\ fs = fs0
       /\ pc \notin {"phase-one", "phase-two", "rollback"}
       /\ LiveRunReturned => ret = ReturnedNil

C5_Witness ==
    /\ AllNoOps
    /\ LiveRunReturned
    /\ ret = ReturnedNil
    /\ Len(operations) >= 2

\* C6: in a run of main no rename call is made unless preflight has passed
\* for the list being executed; if preflight reports an issue the program
\* ends with the filesystem untouched; and a live run renames nothing before
\* the user has confirmed.
C6_NoRenameBeforeValidation ==
    entry = "main"
    => /\ (calls # <<>> \/ pc \in {"phase-one", "phase-two", "rollback"})
            => /\ pc # "main"
               /\ issues = <<>>
               /\ PreflightPasses(fs0, operations)
               /\ ~dryRun
               /\ confirmed
       /\ issues # <<>> => (pc = "exit" /\ fs = fs0 /\ calls = <<>> /\ ret = NotReturned)
       /\ (pc = "exec" /\ ~dryRun) => confirmed

C6_Witness ==
    /\ entry = "main"
    /\ confirmed
    /\ Len(calls) >= 2
    /\ fs # fs0

PreflightReturned ==
    \/ entry = "preflight" /\ pc = "done"
    \/ entry = "main" /\ pc # "main"

\* The instructions that rename (source # target) to the target t.
Occurrences(t) ==
    {i \in 1..Len(operations) :
        /\ operations[i].OldPath # operations[i].NewPath
        /\ operations[i].NewPath = t}

\* Those of them that reach the duplicate check: both paths are given and
\* the source exists.
CheckedOccurrences(t) ==
    {i \in Occurrences(t) :
        /\ operations[i].OldPath # EmptyPath
        /\ operations[i].NewPath # EmptyPath
        /\ Exists(fs0, operations[i].OldPath)}

DuplicateIssues(t) ==
    Cardinality({k \in 1..Len(issues) :
                    issues[k] = Issue("duplicate target path detected", t)})

\* C8 as stated: a list in which two renaming instructions name the same
\* target is rejected, with a duplicate-target issue for the second and each
\* later occurrence, whatever issue the first occurrence has.
C8_DuplicateIssuePerLaterOccurrence ==
    PreflightReturned
    => \A t \in UserPaths :
          Cardinality(Occurrences(t)) >= 2
             => /\ issues # <<>>
                /\ DuplicateIssues(t) = Cardinality(Occurrences(t)) - 1

\* C8 amended: such a list is always rejected; the duplicate-target issues
\* for a target are one for each occurrence after the first among the
\* occurrences whose source exists (an occurrence whose source is missing or
\* empty gets that issue instead, and its target is not recorded).
C8_DuplicateIssuePerCheckedOccurrence ==
    PreflightReturned
    => \A t \in UserPaths \cup {EmptyPath} :
          /\ Cardinality(Occurrences(t)) >= 2 => issues # <<>>
          /\ DuplicateIssues(t) =
                IF CheckedOccurrences(t) = {} THEN 0
                ELSE Cardinality(CheckedOccurrences(t)) - 1

C8_Witness ==
    /\ PreflightReturned
    /\ \E t \in UserPaths :
          /\ Cardinality(Occurrences(t)) >= 2
          /\ Cardinality(CheckedOccurrences(t)) = 1
          /\ DuplicateIssues(t) = 0
          /\ issues # <<>>

\* The position of the state whose phase-one rename failed.
PhaseOneFailedAt == Len(CallsBy("phase-one"))

\* C10: when the phase-one rename of the k-th tracked instruction fails, no
\* further phase-one rename and no phase-two rename is attempted, rollback
\* goes over the batch (moving back the k-1 files already at temporary
\* paths, last first), the error returned has phase "phase-one" and the
\* failing source and temporary path, and if every rollback move succeeded
\* the filesystem is as it was at the start.
C10_PhaseOneFailureRollsBack ==
    executionErr.Phase = "phase-one"
    => LET k == PhaseOneFailedAt
           ones == CallsBy("phase-one")
           backs == CallsBy("rollback")
       IN /\ k \in 1..Len(states)
          /\ \A j \in 1..Len(ones) : ones[j].ok <=> j < k
          /\ CallsBy("phase-two") = <<>>
          /\ executionErr = RenameExecutionError("phase-one", states[k].OldPath,
                                                 states[k].TempPath)
          /\ \A j \in 1..Len(backs) :
                /\ j <= k - 1
                /\ backs[j].from = states[k - j].TempPath
                /\ backs[j].to = states[k - j].OldPath
          /\ ret.kind # "pending"
                => /\ ret.kind = "failure"
                   /\ ret.exec = executionErr
                   /\ Len(backs) = k - 1
                   /\ (\A j \in 1..Len(backs) : backs[j].ok) => fs = fs0

C10_Witness ==
    /\ ret.kind = "failure"
    /\ ret.exec.Phase = "phase-one"
    /\ PhaseOneFailedAt >= 2
    /\ \A j \in 1..Len(CallsBy("rollback")) : CallsBy("rollback")[j].ok
    /\ Len(CallsBy("rollback")) >= 1
    /\ fs = fs0

(***************************************************************************)
(* Properties of createFilePairs                                           *)
(***************************************************************************)
Paired == entry = "createFilePairs" /\ pc = "done"

SubtitleKeys == {Key(subtitleFiles[j]) : j \in 1..Len(subtitleFiles)}

PairsWellFormed ==
    /\ \A i \in 1..Len(pairs) : Key(pairs[i].Video) = Key(pairs[i].Subtitle)
    /\ \A i \in 1..Len(pairs), j \in 1..Len(unmatched) : unmatched[j] # pairs[i].Subtitle

\* C7 as stated: the members of every pair have equal keys, no subtitle of a
\* pair is in the unmatched list, and |pairs| + |unmatched| = |media| +
\* |companion|.
C7_PairsPlusUnmatchedCountsFiles ==
    Paired
    => /\ PairsWellFormed
       /\ Len(pairs) + Len(unmatched) = Len(videoFiles) + Len(subtitleFiles)

\* C7 amended: the members of every pair have equal keys, no subtitle of a
\* pair is in the unmatched list, and 2*|pairs| + |unmatched| = |media| +
\* the number of different keys among the companions (a pair holds two
\* files; of the companions that share a key only the last is kept).
C7_TwicePairsPlusUnmatched ==
    Paired
    => /\ PairsWellFormed
       /\ 2 * Len(pairs) + Len(unmatched) = Len(videoFiles) + Cardinality(SubtitleKeys)

C7_Witness ==
    /\ Paired
    /\ Len(pairs) >= 1
    /\ Len(unmatched) >= 1
    /\ Len(videoFiles) = 2
    /\ Len(subtitleFiles) = 2

(***************************************************************************)
(* Properties of extractSeasonAndEpisode                                   *)
(***************************************************************************)
Extracted == entry = "extractSeasonAndEpisode" /\ pc = "done"

\* The rules whose captured episode is a number greater than zero.
Qualifying ==
    {i \in 1..5 :
        /\ matches[i] # <<>>
        /\ ~Atoi(matches[i][Len(matches[i])]).err
        /\ Atoi(matches[i][Len(matches[i])]).value > 0}

\* C9: the result comes from the lowest-numbered rule whose captured episode
\* parses to a number greater than zero; its season is that rule's captured
\* season if that parses to a positive number and 1 otherwise; it is (1, 0)
\* if no rule qualifies.  So season >= 1, episode >= 0, and episode = 0 only
\* with season = 1.
C9_OrderedCascade ==
    Extracted
    => /\ season >= 1
       /\ episode >= 0
       /\ episode = 0 => season = 1
       /\ Qualifying = {} => (season = 1 /\ episode = 0)
       /\ \A i \in Qualifying :
             (\A j \in Qualifying : i <= j)
             => /\ episode = Atoi(matches[i][Len(matches[i])]).value
                /\ season = IF /\ i <= 2
                               /\ ~Atoi(matches[i][1]).err
                               /\ Atoi(matches[i][1]).value > 0
                            THEN Atoi(matches[i][1]).value
                            ELSE 1

\* A rule matched with episode zero, a later one with an unparsable number,
\* and a still later one gave the result.
C9_Witness ==
    /\ Extracted
    /\ matches[1] # <<>> /\ Atoi(matches[1][2]).value = 0
    /\ matches[2] # <<>> /\ Atoi(matches[2][2]).err
    /\ matches[3] = <<>>
    /\ matches[4] = << <<1, 2>> >>
    /\ season = 1
    /\ episode = 12

(***************************************************************************)
(* Properties of rollback and of the order of the renames                  *)
(***************************************************************************)
RollbackCalls == CallsBy("rollback")

\* What one visit of rollback does to the entry at index.
RollbackVisitIsBestEffort ==
    LET state == states[index]
        moved == state.CurrentPath # state.OldPath
        present == Exists(fs, state.CurrentPath)
        attempts == Len(calls') - Len(calls)
    IN /\ states' = states
       /\ attempts = (IF moved /\ present THEN 1 ELSE 0)
       /\ attempts = 1 =>
             /\ calls'[Len(calls')].by = "rollback"
             /\ calls'[Len(calls')].from = state.CurrentPath
             /\ calls'[Len(calls')].to = state.OldPath
       /\ Len(rollbackErrors') - Len(rollbackErrors) =
             (IF moved /\ (~present \/ ~calls'[Len(calls')].ok) THEN 1 ELSE 0)
       /\ \A k \in 1..Len(rollbackErrors) : rollbackErrors'[k] = rollbackErrors[k]
       /\ IF index > 1
          THEN pc' = "rollback" /\ index' = index - 1 /\ ret' = NotReturned
          ELSE /\ pc' \in {"done", "exit"}
               /\ ret'.kind = "failure"
               /\ ret'.exec = executionErr
               /\ ret'.exec.Phase \in {"phase-one", "phase-two"}
               /\ ret'.rollback = rollbackErrors'

PhaseOneCalls == CallsBy("phase-one")

PhaseTwoCalls == CallsBy("phase-two")

\* C12: the renames of a phase go through the tracked instructions in
\* order, one attempt each, stopping at the first failure; phase two begins
\* only when every phase-one rename has succeeded, so while phase two runs
\* no tracked file is at its original path any more.
C12_PhaseTwoAfterAllOfPhaseOne ==
    /\ Len(PhaseOneCalls) <= Len(states)
    /\ Len(PhaseTwoCalls) <= Len(states)
    /\ \A j \in 1..Len(PhaseOneCalls) :
          /\ PhaseOneCalls[j].from = states[j].OldPath
          /\ PhaseOneCalls[j].to = states[j].TempPath
          /\ j < Len(PhaseOneCalls) => PhaseOneCalls[j].ok
    /\ \A j \in 1..Len(PhaseTwoCalls) :
          /\ PhaseTwoCalls[j].from = states[j].TempPath
          /\ PhaseTwoCalls[j].to = states[j].NewPath
          /\ j < Len(PhaseTwoCalls) => PhaseTwoCalls[j].ok
    /\ \A i, j \in 1..Len(calls) :
          (calls[i].by = "phase-two" /\ calls[j].by = "phase-one") => j < i
    /\ (PhaseTwoCalls # <<>> \/ pc = "phase-two")
          => /\ Len(PhaseOneCalls) = Len(states)
             /\ \A j \in 1..Len(PhaseOneCalls) : PhaseOneCalls[j].ok
    /\ pc = "phase-two"
          => \A i \in 1..Len(states) : fs[states[i].OldPath] # fs0[states[i].OldPath]

\* Both phases went through a batch of two tracked instructions.
C12_Witness ==
    /\ Len(states) = 2
    /\ Len(PhaseOneCalls) = 2
    /\ Len(PhaseTwoCalls) = 2
    /\ PhaseTwoCalls[1].ok
    /\ pc = "rollback"

(***************************************************************************)
(* Properties of CurrentPath                                               *)
(***************************************************************************)
DistinctSources ==
    \A i, j \in 1..Len(operations) :
        operations[i].OldPath = operations[j].OldPath => i = j

ValidLiveBatch == ~dryRun /\ PreflightPasses(fs0, operations) /\ DistinctSources

\* The file of a tracked entry is the one that was at its source at the start.
FileIsAt(state, path) == fs[path] = fs0[state.OldPath]

\* C13 as stated: at every point of a live execution of a validated batch,
\* during and after rollback too, the file of each tracked entry is at the
\* entry's CurrentPath.
C13_CurrentPathIsWhereTheFileIs ==
    ValidLiveBatch
    => \A i \in 1..Len(states) : FileIsAt(states[i], states[i].CurrentPath)

\* Where the loops of the two phases have brought entry i when the loop of
\* phase `phase` stands at position k.
PathByProgress(state, i, phase, k) ==
    IF phase = "phase-one"
    THEN (IF i < k THEN state.TempPath ELSE state.OldPath)
    ELSE (IF i < k THEN state.NewPath ELSE state.TempPath)

\* C13 amended: for a batch that passes preflight and has no source twice,
\* until a rename fails the file of each tracked entry is at the entry's
\* CurrentPath, which is the source before its phase-one rename, the
\* temporary path after it and the target after its phase-two rename;
\* rollback never writes CurrentPath, which keeps the value it had when the
\* rename failed also for the entries rollback has moved back.
C13_CurrentPathIsWhereThePhasesPutTheFile ==
    ValidLiveBatch
    => /\ pc \in {"phase-one", "phase-two"}
          => \A i \in 1..Len(states) :
                /\ states[i].CurrentPath = PathByProgress(states[i], i, pc, index)
                /\ FileIsAt(states[i], states[i].CurrentPath)
       /\ ret = ReturnedNil
          => \A i \in 1..Len(states) :
                /\ states[i].CurrentPath = states[i].NewPath
                /\ FileIsAt(states[i], states[i].CurrentPath)
       /\ executionErr # NoError
          => \A i \in 1..Len(states) :
                states[i].CurrentPath =
                   PathByProgress(states[i], i, executionErr.Phase,
                                  Len(CallsBy(executionErr.Phase)))

\* Phase two has put the first file at its target, the second is at its
\* temporary path.
C13_Witness ==
    /\ ValidLiveBatch
    /\ pc = "phase-two"
    /\ index = 2
    /\ states[1].CurrentPath = states[1].NewPath
    /\ states[2].CurrentPath = states[2].TempPath
    /\ FileIsAt(states[1], states[1].NewPath)

(***************************************************************************)
(* Files that a successful run must leave alone                            *)
(***************************************************************************)
\* The paths whose file the batch keeps in place: those of the no-op
\* instructions and those no instruction names as a source.
KeptInPlace ==
    {p \in AllPaths :
        /\ Exists(fs0, p)
        /\ \/ p \notin Sources
           \/ \E i \in 1..Len(operations) : /\ operations[i].OldPath = p
                                            /\ IsNoOp(operations[i])
        /\ \A i \in 1..Len(operations) :
              operations[i].OldPath = p => IsNoOp(operations[i])}

\* C14: after a live run of a validated batch that returned nil with no
\* failed rename call, every file that existed before the run still exists,
\* and the files kept in place (by a no-op instruction, or outside the batch)
\* are where they were with the content they had.
C14_SuccessOverwritesNothing ==
    ( /\ ~dryRun
      /\ PreflightPasses(fs0, operations)
      /\ ret = ReturnedNil
      /\ FailedCalls = {} )
    => /\ ContentsKept
       /\ \A p \in KeptInPlace : fs[p] = fs0[p]

(***************************************************************************)
(* Files in the output of createFilePairs                                  *)
(***************************************************************************)
\* How often a file is in the output, as a member of a pair or as an entry
\* of the unmatched list.
Appearances(file) ==
    Cardinality({i \in 1..Len(pairs) : pairs[i].Video = file})
    + Cardinality({i \in 1..Len(pairs) : pairs[i].Subtitle = file})
    + Cardinality({j \in 1..Len(unmatched) : unmatched[j] = file})

\* The position in the media list of the video of the i-th pair.
VideoPosition(i) == CHOOSE k \in 1..Len(videoFiles) : videoFiles[k] = pairs[i].Video

PairsInMediaOrder ==
    /\ \A i \in 1..Len(pairs) : \E k \in 1..Len(videoFiles) : videoFiles[k] = pairs[i].Video
    /\ \A i, j \in 1..Len(pairs) : i < j => VideoPosition(i) < VideoPosition(j)

\* A later companion of the input has the key of the j-th.
Replaced(j) ==
    \E l \in (j + 1)..Len(subtitleFiles) : Key(subtitleFiles[l]) = Key(subtitleFiles[j])

\* C15 as stated: every media file and every companion file of the input is
\* exactly once in the output, in one pair or as one unmatched entry, and
\* the pairs are in media discovery order.
C15_EveryFileExactlyOnce ==
    Paired
    => /\ \A k \in 1..Len(videoFiles) : Appearances(videoFiles[k]) = 1
       /\ \A j \in 1..Len(subtitleFiles) : Appearances(subtitleFiles[j]) = 1
       /\ PairsInMediaOrder

\* C15 amended: every media file is exactly once in the output; a companion
\* file is exactly once in the output when no later companion has its key
\* and is not in the output at all when one has; the pairs are in media
\* discovery order.
C15_EveryFileOnceButReplacedCompanions ==
    Paired
    => /\ \A k \in 1..Len(videoFiles) : Appearances(videoFiles[k]) = 1
       /\ \A j \in 1..Len(subtitleFiles) :
             Appearances(subtitleFiles[j]) = (IF Replaced(j) THEN 0 ELSE 1)
       /\ PairsInMediaOrder

\* Two companions and two media files, all with one key: the first media
\* file is paired with the second companion, the second media file is
\* unmatched, the first companion is nowhere.
C15_Witness ==
    /\ Paired
    /\ Len(videoFiles) = 2
    /\ Len(subtitleFiles) = 2
    /\ Key(videoFiles[1]) = Key(videoFiles[2])
    /\ Key(subtitleFiles[1]) = Key(videoFiles[1])
    /\ Key(subtitleFiles[2]) = Key(videoFiles[1])
    /\ pairs = <<[Video |-> videoFiles[1], Subtitle |-> subtitleFiles[2]]>>
    /\ unmatched = <<videoFiles[2]>>

====
